---- MODULE Spec2Model ----
(***************************************************************************)
(* Model of the hintents utility scripts:                                  *)
(*   create_issues.py / create_missing_issues.py  (token read, record      *)
(*   extraction from a numbered markdown list, dispatch loop), and         *)
(*   emojis.py (emoji replacement walk over markdown files).               *)
(*                                                                         *)
(* Text is modelled as sequences of one-character strings (code points).   *)
(***************************************************************************)
EXTENDS Integers, Sequences, FiniteSets, TLC

VARIABLES
    variant,        \* which script runs: "create_issues" or "create_missing_issues"
    env_file,       \* content of .env on disk: sequence of lines
    md_file,        \* content of lishus.md on disk: sequence of lines
    pc,             \* position of the script
    env_idx,        \* next line of .env the token loop reads
    token,          \* token
    md_read,        \* lishus.md has been opened and read
    lines,          \* lines (result of f.readlines())
    idx,            \* next element of lines the extraction loop reads
    issues,         \* issues
    current_title,  \* current_title
    current_body,   \* current_body (list of lines)
    current_num,    \* current_num (create_missing_issues.py only)
    posted,         \* POST calls made so far, with their outcome
    post_idx,       \* index i of the dispatch loop (1-based)
    created_count,  \* created_count
    output,         \* what the script has printed
    exit_code,      \* process exit status, -1 while running
    files,          \* emojis.py: the files under root_dir, in os.walk order
    file_idx,       \* emojis.py: next file the walk visits
    pcE,            \* emojis.py: "walk" or "done"
    run,            \* emojis.py: how many times the utility has been started
    log,            \* emojis.py: what the current run has printed
    converted       \* emojis.py: files a finished run read and converted

vars == <<variant, env_file, md_file, pc, env_idx, token, md_read, lines, idx,
          issues, current_title, current_body, current_num, posted,
          post_idx, created_count, output, exit_code, files, file_idx, pcE, run, log,
          converted>>

scriptVars == <<variant, env_file, md_file, pc, env_idx, token, md_read, lines,
                idx, issues, current_title, current_body, current_num, posted,
                post_idx, created_count, output, exit_code>>

emojiVars == <<files, file_idx, pcE, run, log, converted>>

-----------------------------------------------------------------------------
(* Bounds of the model *)

MaxLines == 3
MaxEnvLines == 2
MaxTextLen == 3
MaxFiles == 2
MaxRuns == 2

-----------------------------------------------------------------------------
(* Text helpers: what Python's str methods and the re module do *)

\* Characters str.strip() and the regex class \s remove / match.
Whitespace == {" ", "\t", "\n"}

\* Characters the regex class \d matches.
Digits == {"0", "1", "2", "3", "4", "5", "6", "7", "8", "9"}

\* Python's None, kept apart from every string (a string is a sequence of
\* one-character strings).
None == <<"<None>">>

\* Truthiness of an Optional[str]: None and "" are false.
Truthy(s) == s # None /\ s # <<>>

RECURSIVE Join(_)
\* "".join(list_of_lines)
Join(ls) == IF ls = <<>> THEN <<>> ELSE Head(ls) \o Join(Tail(ls))

\* s.startswith(p)
StartsWith(s, p) == Len(s) >= Len(p) /\ SubSeq(s, 1, Len(p)) = p

\* Identity in place of strip(): the surrounding whitespace is kept.
StripNone(s) == s

\* s.strip(): drop leading and trailing whitespace.
Strip(s) ==
    LET keep == {i \in 1..Len(s) : s[i] \notin Whitespace}
    IN  IF keep = {} THEN <<>>
        ELSE LET first == CHOOSE i \in keep : \A j \in keep : i <= j
                 last  == CHOOSE i \in keep : \A j \in keep : j <= i
             IN  SubSeq(s, first, last)

\* Length of the longest run of characters of class cls starting at s[from].
RunLen(s, from, cls) ==
    LET stops == {i \in from..Len(s) : s[i] \notin cls}
    IN  IF stops = {} THEN (IF from > Len(s) THEN 0 ELSE Len(s) - from + 1)
        ELSE (CHOOSE i \in stops : \A j \in stops : i <= j) - from

\* End of what "." can cover and "$" accepts: the end of the line, or the
\* position before its trailing newline.
DotEnd(s) == IF Len(s) > 0 /\ s[Len(s)] = "\n" THEN Len(s) - 1 ELSE Len(s)

NoMatch == [ok |-> FALSE, g1 |-> <<>>, g2 |-> <<>>]

\* re.match(r'^(\d+)\.\s+(\[.*?].*)$', line)        create_issues.py
\* A line holds at most one newline, its last character (f.readlines()).
ReMatchBracket(s) ==
    LET d == RunLen(s, 1, Digits)
        w == RunLen(s, d + 2, Whitespace)
        p == d + 2 + w
    IN  IF /\ d >= 1
           /\ Len(s) >= d + 1 /\ s[d + 1] = "."
           /\ w >= 1
           /\ p <= DotEnd(s) /\ s[p] = "["
           /\ \E j \in (p + 1)..DotEnd(s) : s[j] = "]"
           /\ \A j \in p..DotEnd(s) : s[j] # "\n"
        THEN [ok |-> TRUE, g1 |-> SubSeq(s, 1, d), g2 |-> SubSeq(s, p, DotEnd(s))]
        ELSE NoMatch

\* re.match(r'^(\d+)\.\s+(.*)$', line)               create_missing_issues.py
\* The greedy \s+ may swallow the trailing newline; group 2 is then empty.
ReMatchAny(s) ==
    LET d == RunLen(s, 1, Digits)
        w == RunLen(s, d + 2, Whitespace)
        p == d + 2 + w
    IN  IF /\ d >= 1
           /\ Len(s) >= d + 1 /\ s[d + 1] = "."
           /\ w >= 1
           /\ \A j \in p..DotEnd(s) : s[j] # "\n"
        THEN [ok |-> TRUE, g1 |-> SubSeq(s, 1, d),
              g2 |-> IF p > DotEnd(s) THEN <<>> ELSE SubSeq(s, p, DotEnd(s))]
        ELSE NoMatch

\* The condition that makes a line open a new title, per script.
TitleMatch(v, s) ==
    IF v = "create_issues" THEN ReMatchBracket(s)
    ELSE LET m == ReMatchAny(s)
         IN  IF m.ok /\ ~StartsWith(s, <<" ">>) /\ ~StartsWith(s, <<"\t">>)
             THEN m ELSE NoMatch

missing_numbers ==
    { <<"1","0","9">>, <<"1","1","0">>, <<"1","1","1">>, <<"1","1","3">>,
      <<"1","1","4">>, <<"1","1","6">>, <<"1","1","8">>, <<"1","1","9">> }

\* The condition under which the open title is appended to issues.
ShouldEmit(v, title, num) ==
    IF v = "create_issues" THEN Truthy(title)
    ELSE Truthy(title) /\ num \in missing_numbers

\* issues.insert(0, rec) in place of issues.append(rec).
EmitFront(iss, title, body) ==
    <<[title |-> title, body |-> Strip(Join(body))]>> \o iss

\* issues.append({"title": current_title, "body": "".join(current_body).strip()})
Emit(iss, title, body) ==
    Append(iss, [title |-> title, body |-> Strip(Join(body))])

-----------------------------------------------------------------------------
(* Token read: create_issues.py / create_missing_issues.py lines 8-16 *)

Key == <<"G","I","T","H","U","B","_","T","O","K","E","N">>

\* line.split("=") has an element [1]
HasEq(s) == \E i \in 1..Len(s) : s[i] = "="

\* line.split("=")[1].strip(): the text between the first "=" and the next
\* one (or the end of the line), stripped.
EnvValue(s) ==
    LET eqs    == {i \in 1..Len(s) : s[i] = "="}
        first  == CHOOSE i \in eqs : \A j \in eqs : i <= j
        later  == {i \in eqs : i > first}
        second == IF later = {} THEN Len(s) + 1
                  ELSE CHOOSE i \in later : \A j \in later : i <= j
    IN  Strip(SubSeq(s, first + 1, second - 1))

\* "if not token", and a check that only rejects None (never the case here).
TokenMissingNever(t) == t = None

\* if not token:
TokenMissing(t) == t = <<>>

-----------------------------------------------------------------------------
(* Inputs *)

EnvTokA   == Key \o <<"=","a","\n">>
EnvTokB   == Key \o <<"="," ","b","\n">>
EnvTokC   == Key \o <<"_","X","=","c","\n">>
EnvEmpty  == Key \o <<"=","\n">>
EnvNoEq   == Key \o <<"\n">>
EnvOther  == <<"X","=","d","\n">>

EnvLinePool == {EnvTokA, EnvTokB, EnvTokC, EnvEmpty, EnvNoEq, EnvOther}

RECURSIVE SeqsUpTo(_, _)
\* All sequences over S of length at most n.
SeqsUpTo(S, n) ==
    IF n = 0 THEN {<<>>}
    ELSE LET shorter == SeqsUpTo(S, n - 1)
         IN  shorter \cup {Append(q, x) : q \in {r \in shorter : Len(r) = n - 1}, x \in S}

EnvFiles == SeqsUpTo(EnvLinePool, MaxEnvLines)

SmallEnvs == {<<EnvTokA>>, <<EnvOther, EnvTokB>>}

LineUI      == <<"1","."," ","[","U","]","x","\n">>
LineDoc     == <<"1","0","9","."," ","[","D","]","y","\n">>
LinePlain   == <<"1","1","0","."," ","z","\n">>
LineBare    == <<"1","1","1",".","\n">>
LineIndent  == <<" ","1","1","3","."," ","[","I","]","w","\n">>
LineText    == <<"t","\n">>
LineBlank   == <<"\n">>
LineNoEol   == <<"u">>

LinePool == {LineUI, LineDoc, LinePlain, LineBare, LineIndent, LineText,
             LineBlank, LineNoEol}

\* f.readlines(): every line but the last ends with a newline.
IsDocument(d) == \A i \in 1..(Len(d) - 1) : d[i][Len(d[i])] = "\n"

Docs == {d \in SeqsUpTo(LinePool, MaxLines) : IsDocument(d)}

ExampleDoc ==
    << <<"1","."," ","[","U","I","]"," ","A","d","d"," ","X","\n">>,
       <<"l","i","n","e"," ","a","\n">>,
       <<"l","i","n","e"," ","b","\n">>,
       <<"2","."," ","[","D","O","C","]"," ","A","d","d"," ","Y","\n">> >>

SmallDocs == {<<>>, <<LineDoc, LineText>>, ExampleDoc}

Variants == {"create_issues", "create_missing_issues"}

Outcomes == {"201", "201_badjson", "422", "exception"}

-----------------------------------------------------------------------------
(* The issue scripts as a state machine *)

Say(msg, n) == Append(output, [msg |-> msg, n |-> n])

ScriptIdle ==
    /\ pc = "read_env" /\ env_idx = 1 /\ token = <<>>
    /\ md_read = FALSE /\ lines = <<>> /\ idx = 1
    /\ issues = <<>> /\ current_title = None /\ current_body = <<>>
    /\ current_num = None
    /\ posted = <<>> /\ post_idx = 1 /\ created_count = 0
    /\ output = <<>> /\ exit_code = -1

EmojiIdle ==
    /\ files = <<>> /\ file_idx = 1 /\ pcE = "done" /\ run = 0 /\ log = <<>>
    /\ converted = {}

Init ==
    /\ variant \in Variants
    /\ \/ env_file \in EnvFiles /\ md_file \in SmallDocs
       \/ env_file \in SmallEnvs /\ md_file \in Docs
    /\ ScriptIdle
    /\ EmojiIdle

\* for line in f: ... with a break after the first GITHUB_TOKEN line.
ReadTokenLineBreak ==
    /\ pc = "read_env" /\ env_idx <= Len(env_file)
    /\ LET line == env_file[env_idx]
       IN  IF StartsWith(line, Key)
           THEN IF HasEq(line)
                THEN /\ token' = EnvValue(line)
                     /\ env_idx' = Len(env_file) + 1
                     /\ UNCHANGED <<pc, output, exit_code>>
                ELSE /\ pc' = "exited" /\ exit_code' = 1
                     /\ output' = Say("Traceback: IndexError", 0)
                     /\ UNCHANGED <<token, env_idx>>
           ELSE /\ env_idx' = env_idx + 1
                /\ UNCHANGED <<token, pc, output, exit_code>>
    /\ UNCHANGED <<variant, env_file, md_file, md_read, lines, idx, issues,
                   current_title, current_body, current_num, posted, post_idx,
                   created_count, emojiVars>>

\* One iteration of "for line in f:" over .env (lines 10-12).  A line that
\* starts with GITHUB_TOKEN and holds no "=" raises IndexError, which nothing
\* catches: traceback, exit status 1.
ReadTokenLine ==
    /\ pc = "read_env" /\ env_idx <= Len(env_file)
    /\ LET line == env_file[env_idx]
       IN  IF StartsWith(line, Key)
           THEN IF HasEq(line)
                THEN /\ token' = EnvValue(line)
                     /\ env_idx' = env_idx + 1
                     /\ UNCHANGED <<pc, output, exit_code>>
                ELSE /\ pc' = "exited" /\ exit_code' = 1
                     /\ output' = Say("Traceback: IndexError", 0)
                     /\ UNCHANGED <<token, env_idx>>
           ELSE /\ env_idx' = env_idx + 1
                /\ UNCHANGED <<token, pc, output, exit_code>>
    /\ UNCHANGED <<variant, env_file, md_file, md_read, lines, idx, issues,
                   current_title, current_body, current_num, posted, post_idx,
                   created_count, emojiVars>>

\* After the token loop: "if not token" exits with status 1 (lines 14-16),
\* otherwise lishus.md is read (lines 19-24).
CheckToken ==
    /\ pc = "read_env" /\ env_idx > Len(env_file)
    /\ IF TokenMissing(token)
       THEN /\ output' = Say("Error: GITHUB_TOKEN not found in .env", 0)
            /\ pc' = "exited" /\ exit_code' = 1
            /\ UNCHANGED <<md_read, lines>>
       ELSE /\ md_read' = TRUE
            /\ lines' = md_file
            /\ pc' = "extract"
            /\ UNCHANGED <<output, exit_code>>
    /\ UNCHANGED <<variant, env_file, md_file, env_idx, token, idx, issues,
                   current_title, current_body, current_num, posted, post_idx,
                   created_count, emojiVars>>

\* One iteration of "for line in lines:" (create_issues.py 26-37,
\* create_missing_issues.py 29-42).
ExtractLine ==
    /\ pc = "extract" /\ idx <= Len(lines)
    /\ LET line == lines[idx]
           m    == TitleMatch(variant, line)
       IN  IF m.ok
           THEN /\ issues' = IF ShouldEmit(variant, current_title, current_num)
                             THEN Emit(issues, current_title, current_body)
                             ELSE issues
                /\ current_title' = Strip(m.g2)
                /\ current_num' = IF variant = "create_issues" THEN current_num
                                  ELSE m.g1
                /\ current_body' = <<>>
           ELSE /\ current_body' = IF current_title # None
                                   THEN Append(current_body, line)
                                   ELSE current_body
                /\ UNCHANGED <<issues, current_title, current_num>>
    /\ idx' = idx + 1
    /\ UNCHANGED <<variant, env_file, md_file, pc, env_idx, token, md_read,
                   lines, posted, post_idx, created_count, output, exit_code,
                   emojiVars>>

\* The loop has ended and the open title is dropped instead of appended.
ExtractFinalDrop ==
    /\ pc = "extract" /\ idx > Len(lines)
    /\ pc' = "report"
    /\ UNCHANGED <<variant, env_file, md_file, env_idx, token, md_read, lines,
                   idx, issues, current_title, current_body, current_num, posted,
                   post_idx, created_count, output, exit_code, emojiVars>>

\* After the loop: the open title is appended (create_issues.py 39-40,
\* create_missing_issues.py 45-46).
ExtractFinal ==
    /\ pc = "extract" /\ idx > Len(lines)
    /\ issues' = IF ShouldEmit(variant, current_title, current_num)
                 THEN Emit(issues, current_title, current_body)
                 ELSE issues
    /\ pc' = "report"
    /\ UNCHANGED <<variant, env_file, md_file, env_idx, token, md_read, lines,
                   idx, current_title, current_body, current_num, posted,
                   post_idx, created_count, output, exit_code, emojiVars>>

\* The empty-result exit with sys.exit(1) in place of sys.exit(0).
CheckIssuesExitError ==
    /\ pc = "report"
    /\ IF issues = <<>>
       THEN /\ output' = Say("Found", 0) \o <<[msg |-> "Exiting", n |-> 0]>>
            /\ pc' = "exited" /\ exit_code' = 1
            /\ UNCHANGED <<created_count, post_idx>>
       ELSE /\ output' = Say("Found", Len(issues))
                           \o (IF variant = "create_issues"
                               THEN <<[msg |-> "Example First Title", n |-> 1]>>
                               ELSE <<>>)
                           \o <<[msg |-> "Starting to push", n |-> 0]>>
            /\ created_count' = 0
            /\ post_idx' = 1
            /\ pc' = "dispatch"
            /\ UNCHANGED exit_code
    /\ UNCHANGED <<variant, env_file, md_file, env_idx, token, md_read, lines,
                   idx, issues, current_title, current_body, current_num, posted,
                   emojiVars>>

\* The count is printed; an empty list exits with status 0, otherwise the
\* dispatch starts (create_issues.py 42-57, create_missing_issues.py 48-61;
\* only create_issues.py prints the first title).
CheckIssues ==
    /\ pc = "report"
    /\ IF issues = <<>>
       THEN /\ output' = Say("Found", 0) \o <<[msg |-> "Exiting", n |-> 0]>>
            /\ pc' = "exited" /\ exit_code' = 0
            /\ UNCHANGED <<created_count, post_idx>>
       ELSE /\ output' = Say("Found", Len(issues))
                           \o (IF variant = "create_issues"
                               THEN <<[msg |-> "Example First Title", n |-> 1]>>
                               ELSE <<>>)
                           \o <<[msg |-> "Starting to push", n |-> 0]>>
            /\ created_count' = 0
            /\ post_idx' = 1
            /\ pc' = "dispatch"
            /\ UNCHANGED exit_code
    /\ UNCHANGED <<variant, env_file, md_file, env_idx, token, md_read, lines,
                   idx, issues, current_title, current_body, current_num, posted,
                   emojiVars>>

\* Where the dispatch loop goes after a failed call, if it did not break.
AfterFailureContinue == "dispatch"

\* break: the loop is left.
AfterFailure == "finish"

\* One iteration of "for i, issue in enumerate(issues):" (create_issues.py
\* 59-75, create_missing_issues.py 63-78).  The call answers 201 with a JSON
\* object, 201 with a body resp.json() rejects, another status, or raises.
Post ==
    /\ pc = "dispatch" /\ post_idx <= Len(issues)
    /\ \E outcome \in Outcomes :
        /\ posted' = Append(posted, [json |-> issues[post_idx],
                                     auth |-> <<"Bearer", token>>,
                                     outcome |-> outcome])
        /\ IF outcome = "201"
           THEN /\ output' = Say("Creating", post_idx)
                               \o <<[msg |-> "Created", n |-> post_idx]>>
                /\ created_count' = created_count + 1
                /\ pc' = "dispatch"
           ELSE /\ output' = Say("Creating", post_idx)
                               \o <<[msg |-> IF outcome = "422" THEN "Failed"
                                             ELSE "Exception occurred",
                                     n |-> post_idx]>>
                /\ UNCHANGED created_count
                /\ pc' = AfterFailure
    /\ post_idx' = post_idx + 1
    /\ UNCHANGED <<variant, env_file, md_file, env_idx, token, md_read, lines,
                   idx, issues, current_title, current_body, current_num,
                   exit_code, emojiVars>>

\* The dispatch loop has run through every issue.
DispatchDone ==
    /\ pc = "dispatch" /\ post_idx > Len(issues)
    /\ pc' = "finish"
    /\ UNCHANGED <<variant, env_file, md_file, env_idx, token, md_read, lines,
                   idx, issues, current_title, current_body, current_num, posted,
                   post_idx, created_count, output, exit_code, emojiVars>>

\* print(f"Successfully created ..."); the script ends.
Finish ==
    /\ pc = "finish"
    /\ output' = Say("Successfully created", created_count)
    /\ pc' = "exited" /\ exit_code' = 0
    /\ UNCHANGED <<variant, env_file, md_file, env_idx, token, md_read, lines,
                   idx, issues, current_title, current_body, current_num, posted,
                   post_idx, created_count, emojiVars>>

Next ==
    \/ ReadTokenLine
    \/ CheckToken
    \/ ExtractLine
    \/ ExtractFinal
    \/ CheckIssues
    \/ Post
    \/ DispatchDone
    \/ Finish

Spec == Init /\ [][Next]_vars

-----------------------------------------------------------------------------
(* Properties of the issue scripts *)

\* The title pattern, read off the line: unindented, one or more digits, a
\* period, whitespace, then a non-empty remainder; for create_issues.py the
\* remainder begins with a bracketed tag.  d digits, w whitespace characters.
TitleShape(v, s, d, w) ==
    /\ d + 2 + w <= Len(s)
    /\ \A i \in 1..d : s[i] \in Digits
    /\ s[d + 1] = "."
    /\ \A i \in (d + 2)..(d + 1 + w) : s[i] \in Whitespace
    /\ s[d + 2 + w] \notin Whitespace
    /\ v = "create_issues" =>
          /\ s[d + 2 + w] = "["
          /\ \E j \in (d + 3 + w)..Len(s) : s[j] = "]"

IsTitleLine(v, s) ==
    \E d \in 1..Len(s), w \in 1..Len(s) : TitleShape(v, s, d, w)

\* The ordinal of a title line: its leading number, as written.
Ordinal(v, s) ==
    LET d == CHOOSE d \in 1..Len(s) : \E w \in 1..Len(s) : TitleShape(v, s, d, w)
    IN  SubSeq(s, 1, d)

\* The title of a title line: its remainder, trimmed.
TitleText(v, s) ==
    LET dw == CHOOSE dw \in (1..Len(s)) \X (1..Len(s)) :
                  TitleShape(v, s, dw[1], dw[2])
        all == SubSeq(s, dw[1] + 2 + dw[2], Len(s))
        keep == {i \in 1..Len(all) : all[i] \notin Whitespace}
    IN  SubSeq(all, 1, CHOOSE i \in keep : \A j \in keep : j <= i)

\* Indexes of the title lines of a document, and of those the filter keeps.
TitleLines(v, ls) == {i \in 1..Len(ls) : IsTitleLine(v, ls[i])}

KeptTitleLines(v, ls) ==
    {i \in TitleLines(v, ls) :
        v = "create_missing_issues" => Ordinal(v, ls[i]) \in missing_numbers}

\* The k-th smallest element of a set of indexes.
Kth(S, k) == CHOOSE i \in S : Cardinality({j \in S : j < i}) = k - 1

Extracted == md_read /\ pc \in {"report", "dispatch", "finish", "exited"}

\* C1: after extraction, in both variants, the number of records in issues
\* equals the number of input lines that match the title pattern and that the
\* filter keeps.
RecordCountMatchesTitleLines ==
    Extracted => Len(issues) = Cardinality(KeptTitleLines(variant, lines))

RecordCountWitness ==
    /\ Extracted /\ variant = "create_missing_issues"
    /\ Len(issues) = 2
    /\ Cardinality(TitleLines(variant, lines)) = 3

\* The lines strictly between title line t and the next title line (or the
\* end of the input), concatenated and trimmed.
BodyBetween(v, ls, t) ==
    LET later == {i \in TitleLines(v, ls) : i > t}
        next  == IF later = {} THEN Len(ls) + 1
                 ELSE CHOOSE i \in later : \A j \in later : i <= j
        text  == Join(SubSeq(ls, t + 1, next - 1))
        keep  == {i \in 1..Len(text) : text[i] \notin Whitespace}
    IN  IF keep = {} THEN <<>>
        ELSE SubSeq(text, CHOOSE i \in keep : \A j \in keep : i <= j,
                          CHOOSE i \in keep : \A j \in keep : j <= i)

\* C2: each record's body is the trimmed concatenation of exactly the lines
\* strictly between its title line and the next title line or end of input.
BodyIsLinesBetweenTitles ==
    Extracted =>
        \A k \in 1..Len(issues) :
            k <= Cardinality(KeptTitleLines(variant, lines)) =>
                issues[k].body =
                    BodyBetween(variant, lines, Kth(KeptTitleLines(variant, lines), k))

\* C3: at every step the records in issues are those of the first title
\* lines the filter keeps, in input order.
RecordsInInputOrder ==
    /\ Len(issues) <= Cardinality(KeptTitleLines(variant, lines))
    /\ \A k \in 1..Len(issues) :
          issues[k].title =
              TitleText(variant, lines[Kth(KeptTitleLines(variant, lines), k)])

RecordsInInputOrderWitness ==
    /\ pc = "extract"
    /\ Len(issues) = 2
    /\ issues[1].title # issues[2].title
    /\ Cardinality(TitleLines(variant, lines)) > Cardinality(KeptTitleLines(variant, lines))

\* C4: create_issues.py on the four-line example yields exactly the two
\* records "[UI] Add X" / "line a\nline b" and "[DOC] Add Y" / "".
ExampleYieldsTwoRecords ==
    (Extracted /\ variant = "create_issues" /\ lines = ExampleDoc) =>
        issues = << [title |-> <<"[","U","I","]"," ","A","d","d"," ","X">>,
                     body  |-> <<"l","i","n","e"," ","a","\n","l","i","n","e"," ","b">>],
                    [title |-> <<"[","D","O","C","]"," ","A","d","d"," ","Y">>,
                     body  |-> <<>>] >>

ExampleWitness ==
    /\ pc = "report" /\ variant = "create_issues" /\ lines = ExampleDoc
    /\ Len(issues) = 2

\* Lines of .env that start with GITHUB_TOKEN.
TokenLines == {i \in 1..Len(env_file) : StartsWith(env_file[i], Key)}

FirstTokenLine == CHOOSE i \in TokenLines : \A j \in TokenLines : i <= j

LastTokenLine == CHOOSE i \in TokenLines : \A j \in TokenLines : j <= i

\* C5 as stated: the Authorization header carries the value of the first
\* line that starts with GITHUB_TOKEN.
FirstTokenLineWins ==
    \A k \in 1..Len(posted) :
        posted[k].auth = <<"Bearer", EnvValue(env_file[FirstTokenLine])>>

\* C5 amended: the Authorization header carries the value of the last line
\* that starts with GITHUB_TOKEN.
LastTokenLineWins ==
    md_read =>
        /\ TokenLines # {}
        /\ HasEq(env_file[LastTokenLine])
        /\ token = EnvValue(env_file[LastTokenLine])
        /\ \A k \in 1..Len(posted) :
              posted[k].auth = <<"Bearer", EnvValue(env_file[LastTokenLine])>>

LastTokenLineWitness ==
    /\ Len(posted) >= 1
    /\ Cardinality(TokenLines) = 2
    /\ EnvValue(env_file[FirstTokenLine]) # EnvValue(env_file[LastTokenLine])

\* C6: a call that does not answer 201 (or raises) is the last call of the
\* run, and the calls made are a prefix of issues.
DispatchHaltsAtFirstFailure ==
    /\ Len(posted) <= Len(issues)
    /\ \A k \in 1..Len(posted) :
          /\ posted[k].json = issues[k]
          /\ posted[k].outcome # "201" => k = Len(posted)

DispatchHaltsWitness ==
    /\ pc = "exited"
    /\ Len(posted) = 2 /\ Len(issues) = 3
    /\ posted[1].outcome = "201" /\ posted[2].outcome = "422"

\* A line of .env that supplies a non-empty GITHUB_TOKEN value: it starts
\* with the key and something other than whitespace follows its first "=".
SuppliesToken(s) ==
    /\ StartsWith(s, Key)
    /\ \E i \in 1..Len(s) :
          /\ s[i] = "="
          /\ \A j \in 1..(i - 1) : s[j] # "="
          /\ \E j \in (i + 1)..Len(s) : s[j] \notin Whitespace

NoTokenSupplied == \A i \in 1..Len(env_file) : ~SuppliesToken(env_file[i])

Diagnosed ==
    /\ output # <<>>
    /\ output[Len(output)].msg \in {"Error: GITHUB_TOKEN not found in .env",
                                    "Traceback: IndexError"}

\* C7: when no line of .env supplies a non-empty GITHUB_TOKEN value, the
\* script never reads the markdown file, extracts no record, issues no POST,
\* and ends with an error status and a diagnostic.
MissingTokenIsFatal ==
    NoTokenSupplied =>
        /\ ~md_read /\ lines = <<>> /\ issues = <<>> /\ posted = <<>>
        /\ pc \in {"read_env", "exited"}
        /\ pc = "exited" => (exit_code = 1 /\ Diagnosed)

MissingTokenWitness ==
    /\ NoTokenSupplied /\ pc = "exited" /\ TokenLines # {}
    /\ output[Len(output)].msg = "Error: GITHUB_TOKEN not found in .env"

\* C8: when no line of the input is a title line the filter keeps, no record
\* is extracted, the count zero is printed, no POST is issued and the script
\* exits with status 0.
NoTitlesIsEarlySuccess ==
    (md_read /\ KeptTitleLines(variant, lines) = {}) =>
        /\ issues = <<>> /\ posted = <<>>
        /\ pc \in {"extract", "report", "exited"}
        /\ pc = "exited" =>
              /\ exit_code = 0
              /\ \E k \in 1..Len(output) : output[k] = [msg |-> "Found", n |-> 0]

NoTitlesWitness ==
    /\ md_read /\ pc = "exited" /\ variant = "create_missing_issues"
    /\ TitleLines(variant, lines) # {} /\ KeptTitleLines(variant, lines) = {}

-----------------------------------------------------------------------------
(* emojis.py *)

\* The table with the entry that deletes U+1F680 moved to the end.
replacementsRocketLast ==
    << <<<<"U+2705">>, <<"[", "O", "K", "]">>>>,
       <<<<"U+274C">>, <<"[", "F", "A", "I", "L", "]">>>>,
       <<<<"[", "W", "A", "R", "N", "]">>, <<"[", "W", "A", "R", "N", "]">>>>,
       <<<<"U+2713">>, <<"[", "O", "K", "]">>>>,
       <<<<"U+2717">>, <<"[", "F", "A", "I", "L", "]">>>>,
       <<<<"U+26A1">>, <<"*">>>>,
       <<<<"U+1F50D">>, <<"[", "S", "E", "A", "R", "C", "H", "]">>>>,
       <<<<"U+27A1", "U+FE0F">>, <<"-", ">">>>>,
       <<<<"U+2B05", "U+FE0F">>, <<"<", "-">>>>,
       <<<<"U+1F3AF">>, <<"[", "T", "A", "R", "G", "E", "T", "]">>>>,
       <<<<"U+1F4CD">>, <<"[", "L", "O", "C", "]">>>>,
       <<<<"U+1F527">>, <<"[", "T", "O", "O", "L", "]">>>>,
       <<<<"U+1F4CA">>, <<"[", "S", "T", "A", "T", "S", "]">>>>,
       <<<<"U+1F4CB">>, <<"[", "L", "I", "S", "T", "]">>>>,
       <<<<"U+25B6", "U+FE0F">>, <<"[", "P", "L", "A", "Y", "]">>>>,
       <<<<"U+1F4D6">>, <<"[", "D", "O", "C", "]">>>>,
       <<<<"U+1F44B">>, <<"[", "H", "E", "L", "L", "O", "]">>>>,
       <<<<"U+1F4E1">>, <<"[", "N", "E", "T", "]">>>>,
       <<<<"U+1F680">>, <<>>>> >>

\* replacements (emojis.py 4-24), in insertion order: <<emoji, replacement>>.
replacements ==
    << <<<<"U+2705">>, <<"[", "O", "K", "]">>>>,
       <<<<"U+274C">>, <<"[", "F", "A", "I", "L", "]">>>>,
       <<<<"[", "W", "A", "R", "N", "]">>, <<"[", "W", "A", "R", "N", "]">>>>,
       <<<<"U+2713">>, <<"[", "O", "K", "]">>>>,
       <<<<"U+2717">>, <<"[", "F", "A", "I", "L", "]">>>>,
       <<<<"U+26A1">>, <<"*">>>>,
       <<<<"U+1F680">>, <<>>>>,
       <<<<"U+1F50D">>, <<"[", "S", "E", "A", "R", "C", "H", "]">>>>,
       <<<<"U+27A1", "U+FE0F">>, <<"-", ">">>>>,
       <<<<"U+2B05", "U+FE0F">>, <<"<", "-">>>>,
       <<<<"U+1F3AF">>, <<"[", "T", "A", "R", "G", "E", "T", "]">>>>,
       <<<<"U+1F4CD">>, <<"[", "L", "O", "C", "]">>>>,
       <<<<"U+1F527">>, <<"[", "T", "O", "O", "L", "]">>>>,
       <<<<"U+1F4CA">>, <<"[", "S", "T", "A", "T", "S", "]">>>>,
       <<<<"U+1F4CB">>, <<"[", "L", "I", "S", "T", "]">>>>,
       <<<<"U+25B6", "U+FE0F">>, <<"[", "P", "L", "A", "Y", "]">>>>,
       <<<<"U+1F4D6">>, <<"[", "D", "O", "C", "]">>>>,
       <<<<"U+1F44B">>, <<"[", "H", "E", "L", "L", "O", "]">>>>,
       <<<<"U+1F4E1">>, <<"[", "N", "E", "T", "]">>>> >>

RECURSIVE Replace(_, _, _)
\* s.replace(old, new): every non-overlapping occurrence, left to right.
Replace(s, old, new) ==
    IF Len(s) < Len(old) THEN s
    ELSE IF SubSeq(s, 1, Len(old)) = old
         THEN new \o Replace(SubSeq(s, Len(old) + 1, Len(s)), old, new)
         ELSE <<Head(s)>> \o Replace(Tail(s), old, new)

RECURSIVE ApplyFrom(_, _)
\* for emoji, replacement in replacements.items(): from entry k on.
ApplyFrom(s, k) ==
    IF k > Len(replacements) THEN s
    ELSE ApplyFrom(Replace(s, replacements[k][1], replacements[k][2]), k + 1)

\* new_content for content (emojis.py 36-38)
ApplyTable(s) == ApplyFrom(s, 1)

\* Code points the input texts are drawn from.
Alphabet == {"U+2705", "U+1F680", "U+27A1", "U+2B05", "U+FE0F", "a"}

Texts == SeqsUpTo(Alphabet, MaxTextLen)

WalkTexts == { <<"[", "W", "A", "R", "N", "]">>,
               <<"U+26A1", "U+26A1">> }

FileKinds == [md : BOOLEAN, content : WalkTexts]

FileTrees ==
    SeqsUpTo(FileKinds, MaxFiles)
        \cup {<<[md |-> TRUE, content |-> t]>> : t \in Texts}

InitEmoji ==
    /\ variant = "create_issues" /\ env_file = <<>> /\ md_file = <<>>
    /\ ScriptIdle
    /\ files \in FileTrees
    /\ file_idx = 1 /\ pcE = "walk" /\ run = 1 /\ log = <<>>
    /\ converted = {}

Logged(event) == Append(log, [file |-> file_idx, event |-> event])

\* if file.endswith(".md") is false: the file is passed over (line 30).
SkipFile ==
    /\ pcE = "walk" /\ file_idx <= Len(files)
    /\ ~files[file_idx].md
    /\ file_idx' = file_idx + 1
    /\ UNCHANGED <<files, pcE, run, log, converted, scriptVars>>

\* open(..., 'r') or f.read() raises and nothing catches it: the run ends.
ReadErrorUncaught ==
    /\ pcE = "walk" /\ file_idx <= Len(files)
    /\ files[file_idx].md
    /\ log' = Logged("Error")
    /\ pcE' = "done"
    /\ UNCHANGED <<files, file_idx, run, converted, scriptVars>>

\* open(..., 'r') or f.read() raises; "except Exception" prints the error and
\* the loop goes on with the next file (lines 32-34, 44-45).
ReadError ==
    /\ pcE = "walk" /\ file_idx <= Len(files)
    /\ files[file_idx].md
    /\ log' = Logged("Error")
    /\ file_idx' = file_idx + 1
    /\ UNCHANGED <<files, pcE, run, converted, scriptVars>>

\* The file is read and converted; it is written back only when the
\* conversion changed it (lines 33-43).  An unchanged file prints nothing:
\* its log entry is the trace of the visit.
ProcessFile ==
    /\ pcE = "walk" /\ file_idx <= Len(files)
    /\ files[file_idx].md
    /\ LET content     == files[file_idx].content
           new_content == ApplyTable(content)
       IN  IF content # new_content
           THEN /\ files' = [files EXCEPT ![file_idx].content = new_content]
                /\ log' = Logged("Updated")
           ELSE /\ log' = Logged("Unchanged")
                /\ UNCHANGED files
    /\ file_idx' = file_idx + 1
    /\ UNCHANGED <<pcE, run, converted, scriptVars>>

\* The file is read but writing it back raises: open(..., 'w') fails and the
\* file is as it was, or f.write fails and the file holds a prefix of
\* new_content.  The error is printed and the loop goes on (lines 40-45).
WriteError ==
    /\ pcE = "walk" /\ file_idx <= Len(files)
    /\ files[file_idx].md
    /\ LET content     == files[file_idx].content
           new_content == ApplyTable(content)
       IN  /\ content # new_content
           /\ \E left \in {content} \cup
                          {SubSeq(new_content, 1, k) : k \in 0..Len(new_content)} :
                  files' = [files EXCEPT ![file_idx].content = left]
    /\ log' = Logged("Error")
    /\ file_idx' = file_idx + 1
    /\ UNCHANGED <<pcE, run, converted, scriptVars>>

\* os.walk is exhausted: the script ends.
WalkDone ==
    /\ pcE = "walk" /\ file_idx > Len(files)
    /\ pcE' = "done"
    /\ UNCHANGED <<files, file_idx, run, log, converted, scriptVars>>

\* The utility is started again over the same tree.  The files the finished
\* run read and converted (rewrote, or found unchanged) are remembered.
Rerun ==
    /\ pcE = "done" /\ run >= 1 /\ run < MaxRuns
    /\ run' = run + 1
    /\ file_idx' = 1
    /\ pcE' = "walk"
    /\ log' = <<>>
    /\ converted' = converted \cup
            {log[k].file : k \in {j \in 1..Len(log) :
                                     log[j].event \in {"Updated", "Unchanged"}}}
    /\ UNCHANGED <<files, scriptVars>>

WalkStep == SkipFile \/ ReadError \/ ProcessFile \/ WriteError \/ WalkDone

NextEmoji ==
    \/ SkipFile
    \/ ReadError
    \/ ProcessFile
    \/ WriteError
    \/ WalkDone
    \/ Rerun

SpecEmoji == InitEmoji /\ [][NextEmoji]_vars

\* A started run keeps running: the script is one sequential process.
SpecEmojiFair == SpecEmoji /\ WF_vars(WalkStep)

\* The entries the current run logged for file i.
Entries(i) == {k \in 1..Len(log) : log[k].file = i}

\* C9: a file that an earlier run has converted (rewritten or found
\* unchanged) is never rewritten by a later run: converting its content
\* changes nothing.
SecondRunWritesNothing ==
    \A i \in converted :
        /\ ApplyTable(files[i].content) = files[i].content
        /\ \A k \in Entries(i) : log[k].event # "Updated"

SecondRunWitness ==
    /\ run = 2 /\ pcE = "done" /\ Len(files) = 1
    /\ files[1].content = <<"-", ">">>
    /\ log = <<[file |-> 1, event |-> "Unchanged"]>>
    /\ converted = {1}

MdFiles == {i \in 1..Len(files) : files[i].md}

\* C10: an error on one file is logged for that file and the walk goes on:
\* a finished run has visited every .md file exactly once, and every started
\* run finishes.
WalkSurvivesFileErrors ==
    /\ [](pcE = "done" => \A i \in MdFiles : Cardinality(Entries(i)) = 1)
    /\ [](pcE = "walk" => <>(pcE = "done"))

WalkSurvivesWitness ==
    /\ pcE = "done" /\ Len(files) = 2 /\ MdFiles = {1, 2}
    /\ log = << [file |-> 1, event |-> "Error"],
                [file |-> 2, event |-> "Updated"] >>

====
